---- MODULE Spec2Model ----
(***************************************************************************)
(* A model of the prompt-preprocess controller with its status-step tree   *)
(* (PromptPreprocessController, PredictionProcessStatusController and the  *)
(* citation / debug block controllers) and of the prediction entry points  *)
(* of LLMModel (predict, complete, respond).                               *)
(*                                                                         *)
(* JavaScript objects that callers can alias (StatusStepState) live in a   *)
(* heap: a status node holds a reference (a label) to its lastState, so    *)
(* that two nodes given the same object share it.                          *)
(***************************************************************************)
EXTENDS Integers, Sequences, FiniteSets, TLC

\* ------------------------------------------------------------------------
\* Bounds of the model
\* ------------------------------------------------------------------------
\* The number of step controllers (status, sub-status, citation, debug) made.
MaxSteps == 2
\* The same, where only the shapes of the status tree are explored (SpecTree).
MaxTreeSteps == 4
\* The same, where only top-level steps and end() are explored (SpecEnd).
MaxEndSteps == 4
\* Date.now() ranges over 0..MaxClock.
MaxClock == 1
\* Math.random() ranges over 0..MaxRandom.
MaxRandom == 1
\* The number of complete / respond calls.
MaxPredictions == 1
\* The number of events (fragment, success, error) the channels deliver, over all
\* channels.
MaxDeliveries == 3
\* The number of iterations started over the predictions.
MaxConsumers == 1
\* The number of iterations started over one prediction (SpecStream).
MaxIterations == 2
\* The number of cancel() calls made on one prediction.
MaxCancels == 2
\* The number of complete / respond calls, where the configs of the callers are
\* explored (SpecConfig).
MaxConfigCalls == 2
\* The number of predictions in flight at once, the number of events their
\* channels deliver, and the number of cancel() calls on each (SpecInFlight).
MaxInFlight == 2
MaxInFlightDeliveries == 2
MaxInFlightCancels == 1
\* The number of handlers subscribed to one BufferedEvent.
MaxHandlers == 3
\* The number of emissions of one BufferedEvent.
MaxEmissions == 2

StatusVals == {"waiting", "loading", "done", "error", "canceled"}
TextVals == {"a", "b"}
ClockVals == 0..MaxClock
RandomVals == 0..MaxRandom

VARIABLES
    endedFlag,        \* PromptPreprocessController.endedFlag
    stepControllers,  \* PromptPreprocessController.stepControllers (node indices)
    nodes,            \* every step controller object made so far, in creation order
    heap,             \* the StatusStepState objects the nodes refer to
    now,              \* the last reading of Date.now()
    endInvoked,       \* whether end() has been called on the controller
    display,          \* the ids of the status blocks as the co-preprocessor has placed them
    loaded,              \* LLMModel.loaded
    channels,            \* the channels llmPort.createChannel has opened, one per prediction
    cancelEvents,        \* the BufferedEvent made for each prediction
    ongoingPredictions,  \* the OngoingPrediction made for each prediction
    consumers,           \* the iterations (for await) running over the predictions
    arrivals,            \* what the backend has delivered on each channel, in arrival order
    requests,            \* the number of cancel() calls made on each prediction
    calls,               \* the method and the options of the call behind each prediction
    thrown,              \* the methods whose rejected calls are on record
    bufferedEvent,       \* a BufferedEvent taken on its own
    eventLog             \* the calls made on that event and the handlers it has invoked

ctlVars == <<endedFlag, stepControllers, nodes, heap, now, endInvoked, display>>
predVars == <<loaded, channels, cancelEvents, ongoingPredictions, consumers, arrivals,
              requests, calls, thrown>>
evtVars == <<bufferedEvent, eventLog>>
vars == <<ctlVars, predVars, evtVars>>

\* ------------------------------------------------------------------------
\* Helpers on the object heap
\* ------------------------------------------------------------------------
\* A label no live object carries: the allocation of a new object.
newLabel(h) == CHOOSE l \in 1..(Cardinality(DOMAIN h) + 1) : l \notin DOMAIN h

\* The machine state the methods below transform: the controller's fields,
\* the objects, the updates the running call has handed to
\* coprocessor.handleUpdate (out) and whether the call threw.
Machine == [ended |-> endedFlag, steps |-> stepControllers, nodes |-> nodes,
            heap |-> heap, out |-> <<>>, threw |-> FALSE]

\* The state a node currently shows: the contents of the object it refers to.
stateOf(ns, h, n) == h[ns[n].lastState]

\* Objects no node refers to any more are dropped, and the remaining ones
\* are named after the first node that refers to them.
rep(ns, n) == CHOOSE j \in 1..n : ns[j].kind = "status" /\ ns[j].lastState = ns[n].lastState /\
                 \A k \in 1..(j - 1) : ~(ns[k].kind = "status" /\ ns[k].lastState = ns[n].lastState)
canonNodes(ns) == [n \in 1..Len(ns) |->
                     IF ns[n].kind = "status" THEN [ns[n] EXCEPT !.lastState = rep(ns, n)] ELSE ns[n]]
canonHeap(ns, h) == [l \in {rep(ns, n) : n \in {k \in 1..Len(ns) : ns[k].kind = "status"}} |->
                       h[ns[l].lastState]]

\* ------------------------------------------------------------------------
\* createId
\* ------------------------------------------------------------------------
\* `${Date.now()}-${Math.random()}`: the clock reading, then the random draw.
createId(t, r) == <<t, r>>

\* ------------------------------------------------------------------------
\* PromptPreprocessController
\* ------------------------------------------------------------------------
hasEnded(m) == m.ended

\* sendUpdate without the hasEnded() check.
sendUpdate_NoEndedCheck(m, update) == [m EXCEPT !.out = Append(@, update)]

sendUpdate(m, update) ==
    IF hasEnded(m)
    THEN [m EXCEPT !.threw = TRUE]
    ELSE [m EXCEPT !.out = Append(@, update)]

\* new PredictionProcessStatusController(controller, initialState, id, indentation)
newStatusNode(id, label, indentation, parent, self) ==
    [kind |-> "status", id |-> id, indentation |-> indentation,
     lastSubStatus |-> self, lastState |-> label, parent |-> parent]

\* new PredictionProcessCitationBlockController / DebugInfoBlockController
newLeafNode(kind, id, self) ==
    [kind |-> kind, id |-> id, indentation |-> 0,
     lastSubStatus |-> self, lastState |-> 0, parent |-> 0]

\* PredictionProcessStatusController.setState, with the state object at `label`.
setState(m, n, label) ==
    sendUpdate([m EXCEPT !.nodes[n].lastState = label],
               [type |-> "status.update", id |-> m.nodes[n].id, state |-> m.heap[label]])

\* PredictionProcessStatusController.setText
setText(m, n, text) ==
    LET l == m.nodes[n].lastState
        m1 == [m EXCEPT !.heap[l].text = text]
    IN  sendUpdate(m1, [type |-> "status.update", id |-> m.nodes[n].id, state |-> m1.heap[l]])

\* [ensureEnded] that looks for "loading" only.
ensureEnded_LoadingOnly(m, n) ==
    IF m.nodes[n].kind = "status" /\ stateOf(m.nodes, m.heap, n).status \in {"loading"}
    THEN LET l == newLabel(m.heap)
             canceled == [status |-> "canceled", text |-> stateOf(m.nodes, m.heap, n).text]
         IN  setState([m EXCEPT !.heap = @ @@ (l :> canceled)], n, l)
    ELSE m

\* [ensureEnded] that cancels a status step whatever its status.
ensureEnded_AnyStatus(m, n) ==
    IF m.nodes[n].kind = "status"
    THEN LET l == newLabel(m.heap)
             canceled == [status |-> "canceled", text |-> stateOf(m.nodes, m.heap, n).text]
         IN  setState([m EXCEPT !.heap = @ @@ (l :> canceled)], n, l)
    ELSE m

\* [ensureEnded] of the three controller classes.
ensureEnded(m, n) ==
    IF m.nodes[n].kind = "status" /\ stateOf(m.nodes, m.heap, n).status \in {"loading", "waiting"}
    THEN LET l == newLabel(m.heap)
             canceled == [status |-> "canceled", text |-> stateOf(m.nodes, m.heap, n).text]
         IN  setState([m EXCEPT !.heap = @ @@ (l :> canceled)], n, l)
    ELSE m

\* The for-loop of end(): a throw leaves the loop.
RECURSIVE endLoop(_, _)
endLoop(m, i) ==
    IF i > Len(m.steps) \/ m.threw THEN m
    ELSE endLoop(ensureEnded(m, m.steps[i]), i + 1)

end(m) ==
    LET m1 == endLoop(m, 1)
    IN  IF m1.threw THEN m1 ELSE [m1 EXCEPT !.ended = TRUE]

\* createStatus that makes the step without sending its status.create.
createStatus_Silent(m, label, id) ==
    IF hasEnded(m) THEN [m EXCEPT !.threw = TRUE]
    ELSE [m EXCEPT !.nodes = Append(@, newStatusNode(id, label, 0, 0, Len(m.nodes) + 1)),
                   !.steps = Append(@, Len(m.nodes) + 1)]

createStatus(m, label, id) ==
    LET m1 == sendUpdate(m, [type |-> "status.create", id |-> id, state |-> m.heap[label]])
        self == Len(m.nodes) + 1
    IN  IF m1.threw THEN m1
        ELSE [m1 EXCEPT !.nodes = Append(@, newStatusNode(id, label, 0, 0, self)),
                        !.steps = Append(@, self)]

createCitationBlock(m, citedText, source, id) ==
    LET m1 == sendUpdate(m, [type |-> "citationBlock.create", id |-> id,
                             citedText |-> citedText, source |-> source])
        self == Len(m.nodes) + 1
    IN  IF m1.threw THEN m1
        ELSE [m1 EXCEPT !.nodes = Append(@, newLeafNode("citation", id, self)),
                        !.steps = Append(@, self)]

createDebugInfoBlock(m, debugInfo, id) ==
    LET m1 == sendUpdate(m, [type |-> "debugInfoBlock.create", id |-> id, debugInfo |-> debugInfo])
        self == Len(m.nodes) + 1
    IN  IF m1.threw THEN m1
        ELSE [m1 EXCEPT !.nodes = Append(@, newLeafNode("debug", id, self)),
                        !.steps = Append(@, self)]

\* ------------------------------------------------------------------------
\* PredictionProcessStatusController: the sub-status tree
\* ------------------------------------------------------------------------
RECURSIVE walkLastSubStatus(_, _)
walkLastSubStatus(ns, current) ==
    IF ns[current].lastSubStatus = current THEN current
    ELSE walkLastSubStatus(ns, ns[current].lastSubStatus)

\* getNestedLastSubStatusBlockId without the while loop.
getNestedLastSubStatusBlockId_OneHop(m, n) == m.nodes[m.nodes[n].lastSubStatus].id

getNestedLastSubStatusBlockId(m, n) ==
    m.nodes[walkLastSubStatus(m.nodes, m.nodes[n].lastSubStatus)].id

\* addSubStatus that links the new node to its parent before it sends the update.
addSubStatus_LinksFirst(m, n, label, id) ==
    LET self == Len(m.nodes) + 1
        linked == [m EXCEPT !.nodes = [Append(@, newStatusNode(id, label,
                                                               m.nodes[n].indentation + 1,
                                                               n, self))
                                         EXCEPT ![n].lastSubStatus = self]]
    IN  sendUpdate(linked, [type |-> "status.create", id |-> id, state |-> m.heap[label],
                            location |-> [type |-> "afterId",
                                          id |-> getNestedLastSubStatusBlockId(m, n)],
                            indentation |-> m.nodes[n].indentation + 1])

addSubStatus(m, n, label, id) ==
    LET m1 == sendUpdate(m, [type |-> "status.create", id |-> id, state |-> m.heap[label],
                             location |-> [type |-> "afterId",
                                           id |-> getNestedLastSubStatusBlockId(m, n)],
                             indentation |-> m.nodes[n].indentation + 1])
        self == Len(m.nodes) + 1
    IN  IF m1.threw THEN m1
        ELSE [m1 EXCEPT !.nodes = [Append(@, newStatusNode(id, label, m.nodes[n].indentation + 1,
                                                           n, self))
                                     EXCEPT ![n].lastSubStatus = self]]

\* ------------------------------------------------------------------------
\* BufferedEvent (@lmstudio/lms-common)
\* ------------------------------------------------------------------------
\* BufferedEvent.create(): an event that has not fired, with no subscriber.
BufferedEventCreate == [emitted |-> FALSE, subscribers |-> <<>>, payload |-> ""]

\* subscribeOnce(handler): the handler waits for the emission, unless the
\* event has fired already, and then it is invoked at once.
subscribeOnce(e, handler) ==
    IF e.emitted THEN e ELSE [e EXCEPT !.subscribers = Append(@, handler)]
invokedAtSubscribe_Never(e, handler) == <<>>
invokedAtSubscribe(e, handler) == IF e.emitted THEN <<handler>> ELSE <<>>

\* The emit function: the first emission invokes the waiting handlers once;
\* a later one invokes nothing.
emit(e) ==
    IF e.emitted THEN e ELSE [e EXCEPT !.emitted = TRUE, !.subscribers = <<>>]
invokedAtEmit(e) == IF e.emitted THEN <<>> ELSE e.subscribers

\* The emission with its payload: the event keeps the payload of the first
\* emission for the handlers that subscribe later.
emitWith(e, payload) == IF e.emitted THEN e ELSE [emit(e) EXCEPT !.payload = payload]

\* ------------------------------------------------------------------------
\* OngoingPrediction (./OngoingPrediction)
\* ------------------------------------------------------------------------
RECURSIVE Concat(_)
Concat(fragments) ==
    IF fragments = <<>> THEN "" ELSE Head(fragments) \o Concat(Tail(fragments))

\* concatenateDebugMessages(...messages): the messages made one string.
concatenateDebugMessages(messages) == Concat(messages)

\* debug(...messages)
debug(m, messages, id) == createDebugInfoBlock(m, concatenateDebugMessages(messages), id)

\* OngoingPrediction.create(emitCancelEvent)
OngoingPredictionCreate ==
    [status |-> "pending", fragments |-> <<>>, content |-> "", stats |-> 0,
     modelInfo |-> "", error |-> ""]

\* push(fragment): appends while the prediction is pending.
push(o, fragment) ==
    IF o.status = "pending" THEN [o EXCEPT !.fragments = Append(@, fragment)] ELSE o

\* finished that takes the new result whatever the status.
finished_Overwrites(o, stats, modelInfo) ==
    [o EXCEPT !.status = "succeeded", !.content = Concat(o.fragments),
              !.stats = stats, !.modelInfo = modelInfo]

\* finished(stats, modelInfo): the one terminal transition to succeeded, its
\* content computed from the accumulated fragments.
finished(o, stats, modelInfo) ==
    IF o.status = "pending"
    THEN [o EXCEPT !.status = "succeeded", !.content = Concat(o.fragments),
                   !.stats = stats, !.modelInfo = modelInfo]
    ELSE o

\* failed(error): the one terminal transition to failed.
failed(o, error) ==
    IF o.status = "pending" THEN [o EXCEPT !.status = "failed", !.error = error] ELSE o

\* The awaited form: pending until the terminal transition, then resolved
\* with the result or rejected with the error.
awaited(o) ==
    CASE o.status = "succeeded" ->
             [settled |-> "resolved", content |-> o.content, stats |-> o.stats,
              modelInfo |-> o.modelInfo]
      [] o.status = "failed" -> [settled |-> "rejected", error |-> o.error]
      [] OTHER -> [settled |-> "pending"]

\* An iteration over prediction p: it starts at the first fragment of the
\* buffer; concurrent records whether the prediction was still pending then.
iterate(p, o) ==
    [prediction |-> p, yielded |-> <<>>, outcome |-> "iterating", error |-> "",
     concurrent |-> (o.status = "pending")]

\* Whether the iteration can go on: a fragment it has not yielded is in the
\* buffer, or the prediction has reached its terminal state.
canStep(c, o) ==
    c.outcome = "iterating" /\ (Len(c.yielded) < Len(o.fragments) \/ o.status # "pending")

\* One step of the iteration: the next buffered fragment; after the last one,
\* normal completion on succeeded and the error on failed.
step(c, o) ==
    IF Len(c.yielded) < Len(o.fragments)
    THEN [c EXCEPT !.yielded = Append(@, o.fragments[Len(c.yielded) + 1])]
    ELSE IF o.status = "succeeded" THEN [c EXCEPT !.outcome = "completed"]
    ELSE [c EXCEPT !.outcome = "raised", !.error = o.error]

\* ------------------------------------------------------------------------
\* LLMModel
\* ------------------------------------------------------------------------
\* The channels, events and predictions the methods below transform, with
\* what a call hands back: whether it threw, and the push calls it made.
World == [loaded |-> loaded, channels |-> channels, cancelEvents |-> cancelEvents,
          ongoingPredictions |-> ongoingPredictions, threw |-> FALSE, pushed |-> <<>>]

\* llmPort.createChannel("predict", creationParameter, onMessage)
createChannel(endpoint, creationParameter) ==
    [endpoint |-> endpoint, creationParameter |-> creationParameter, sent |-> <<>>,
     onError |-> BufferedEventCreate]

\* channel.send(message)
send(channel, message) == [channel EXCEPT !.sent = Append(@, message)]

\* A fragment closure that puts the new fragment ahead of the earlier ones.
onFragment_Reordered(w, p, fragment) ==
    [w EXCEPT !.ongoingPredictions[p].fragments = <<fragment>> \o @]

\* The closures complete and respond hand to predict.
onFragment(w, p, fragment) ==
    [w EXCEPT !.ongoingPredictions[p] = push(@, fragment),
              !.pushed = Append(@, [prediction |-> p, fragment |-> fragment])]
onFinished(w, p, stats, modelInfo) ==
    [w EXCEPT !.ongoingPredictions[p] = finished(@, stats, modelInfo)]
onError(w, p, error) == [w EXCEPT !.ongoingPredictions[p] = failed(@, error)]

\* The message handler without its "fragment" case.
onMessage_NoFragmentCase(w, p, message) ==
    IF message.type = "success" THEN onFinished(w, p, message.stats, message.modelInfo) ELSE w

\* The message handler predict gives to createChannel.
onMessage(w, p, message) ==
    CASE message.type = "fragment" -> onFragment(w, p, message.fragment)
      [] message.type = "success" -> onFinished(w, p, message.stats, message.modelInfo)
      [] OTHER -> w

\* predict that does not subscribe onError to channel.onError.
predict_NoErrorHandler(w, p, modelSpecifier, history, config, structured) ==
    LET parameter == [modelSpecifier |-> modelSpecifier, history |-> history,
                      config |-> config, structured |-> structured]
        channel == createChannel("predict", parameter)
        cancelEvent == w.cancelEvents[p]
        canceled == IF invokedAtSubscribe(cancelEvent, "sendCancel") = <<>> THEN channel
                    ELSE send(channel, [type |-> "cancel"])
    IN  [w EXCEPT !.channels = Append(@, canceled),
                  !.cancelEvents[p] = subscribeOnce(cancelEvent, "sendCancel")]

\* predict that does not subscribe the cancel action to the cancel event.
predict_NoCancelSubscription(w, p, modelSpecifier, history, config, structured) ==
    LET parameter == [modelSpecifier |-> modelSpecifier, history |-> history,
                      config |-> config, structured |-> structured]
        channel == createChannel("predict", parameter)
    IN  [w EXCEPT !.channels = Append(@, [channel EXCEPT
                                             !.onError = subscribeOnce(@, "onError")])]

\* predict: the channel of prediction p, the cancel action subscribed to the
\* cancel event and onError subscribed to the channel's error event.
predict(w, p, modelSpecifier, history, config, structured) ==
    LET parameter == [modelSpecifier |-> modelSpecifier, history |-> history,
                      config |-> config, structured |-> structured]
        channel == createChannel("predict", parameter)
        cancelEvent == w.cancelEvents[p]
        canceled == IF invokedAtSubscribe(cancelEvent, "sendCancel") = <<>> THEN channel
                    ELSE send(channel, [type |-> "cancel"])
    IN  [w EXCEPT !.channels = Append(@, [canceled EXCEPT
                                             !.onError = subscribeOnce(@, "onError")]),
                  !.cancelEvents[p] = subscribeOnce(cancelEvent, "sendCancel")]

\* A cancel action that sends on every channel of the port.
sendCancel_Broadcast(w, p) ==
    [w EXCEPT !.channels = [q \in 1..Len(@) |-> send(@[q], [type |-> "cancel"])]]

\* A cancel action that also fails the prediction.
sendCancel_AlsoFails(w, p) ==
    [w EXCEPT !.channels[p] = send(@, [type |-> "cancel"]),
              !.ongoingPredictions[p] = failed(@, "canceled")]

\* The action predict subscribes to the cancel event.
sendCancel(w, p) == [w EXCEPT !.channels[p] = send(@, [type |-> "cancel"])]

\* cancel() that sends the cancel message itself whatever the event has done.
cancel_SendsEachTime(w, p) ==
    sendCancel([w EXCEPT !.cancelEvents[p] = emit(w.cancelEvents[p])], p)

\* cancel() on the prediction: it emits the cancel event, and the emission
\* runs the subscribed action.
cancel(w, p) ==
    LET event == w.cancelEvents[p]
        w1 == [w EXCEPT !.cancelEvents[p] = emit(event)]
    IN  IF invokedAtEmit(event) = <<>> THEN w1 ELSE sendCancel(w1, p)

\* The channel reports an error: its onError event fires.
channelError(w, p, error) ==
    LET event == w.channels[p].onError
        w1 == [w EXCEPT !.channels[p].onError = emitWith(event, error)]
    IN  IF invokedAtEmit(event) = <<>> THEN w1
        ELSE onError(w1, p, w1.channels[p].onError.payload)

\* this.specifier
specifier == "llm-1"

\* validateMethodParamsOrThrow: whether the arguments pass their schemas.
validates(input, opts) == input.wellFormed /\ opts.wellFormed

\* { config = {}, structured } = opts
configOf(opts) == IF opts.hasConfig THEN opts.config ELSE <<>>

\* The config complete passes on: stopStrings defaults to [], the caller's
\* fields are spread over it, inputPrefix and inputSuffix are set to "".
\* The values a stopStrings key can hold: an array, or undefined.
Array(items) == [type |-> "array", items |-> items]
Undefined == [type |-> "undefined"]

\* The spread written last, so that the caller's inputPrefix and inputSuffix win.
completeConfig_CallerLast(config) ==
    config @@ [inputPrefix |-> "", inputSuffix |-> ""] @@ [stopStrings |-> Array(<<>>)]

completeConfig(config) ==
    [inputPrefix |-> "", inputSuffix |-> ""] @@ config @@ [stopStrings |-> Array(<<>>)]

\* The cancel event and the OngoingPrediction both entry points create.
withPrediction(w) ==
    [w EXCEPT !.cancelEvents = Append(@, BufferedEventCreate),
              !.ongoingPredictions = Append(@, OngoingPredictionCreate)]

\* complete that checks the handle and the arguments after predict.
complete_ChecksLast(w, prompt, opts) ==
    LET w1 == predict(withPrediction(w), Len(w.ongoingPredictions) + 1, specifier,
                      <<[role |-> "user", content |-> prompt.value]>>,
                      completeConfig(configOf(opts)), opts.structured)
    IN  IF ~w.loaded \/ ~validates(prompt, opts) THEN [w1 EXCEPT !.threw = TRUE] ELSE w1

\* complete(prompt, opts): throws on an unloaded model and on arguments that
\* fail validation; otherwise starts a prediction on the one-message history.
complete(w, prompt, opts) ==
    IF ~w.loaded \/ ~validates(prompt, opts)
    THEN [w EXCEPT !.threw = TRUE]
    ELSE predict(withPrediction(w), Len(w.ongoingPredictions) + 1, specifier,
                 <<[role |-> "user", content |-> prompt.value]>>,
                 completeConfig(configOf(opts)), opts.structured)

\* respond(history, opts): the same checks; history and config go through.
respond(w, history, opts) ==
    IF ~w.loaded \/ ~validates(history, opts)
    THEN [w EXCEPT !.threw = TRUE]
    ELSE predict(withPrediction(w), Len(w.ongoingPredictions) + 1, specifier,
                 history.value, configOf(opts), opts.structured)

\* ------------------------------------------------------------------------
\* Calls on the API
\* ------------------------------------------------------------------------
\* The state objects a caller can pass: a new object literal (ref = 0) or an
\* object it passed before and some node still refers to (ref = its label).
StateArgs == [ref : {0}, status : StatusVals, text : TextVals]
               \cup [ref : DOMAIN heap, status : {"waiting"}, text : {"a"}]

\* The machine with the caller's state object in the heap, and its label.
withArg(m, arg) ==
    IF arg.ref = 0
    THEN [m EXCEPT !.heap = @ @@ (newLabel(m.heap) :> [status |-> arg.status, text |-> arg.text])]
    ELSE m
labelOf(m, arg) == IF arg.ref = 0 THEN newLabel(m.heap) ELSE arg.ref

\* coprocessor.handleUpdate on the side of the host: a status.create without
\* location is put at the end of the list of status blocks, one with a
\* location right after the block the location names (at the end when no
\* block has that id); the other updates leave the list as it is.
positionOf(list, id) ==
    IF \E i \in 1..Len(list) : list[i] = id
    THEN CHOOSE i \in 1..Len(list) : list[i] = id /\ \A j \in 1..(i - 1) : list[j] # id
    ELSE Len(list)

applyUpdate(list, update) ==
    IF update.type # "status.create" THEN list
    ELSE IF "location" \in DOMAIN update
    THEN SubSeq(list, 1, positionOf(list, update.location.id)) \o <<update.id>>
             \o SubSeq(list, positionOf(list, update.location.id) + 1, Len(list))
    ELSE Append(list, update.id)

RECURSIVE applyUpdates(_, _)
applyUpdates(list, updates) ==
    IF updates = <<>> THEN list
    ELSE applyUpdates(applyUpdate(list, Head(updates)), Tail(updates))

\* The call returns (or throws): the machine becomes the state, and the
\* co-preprocessor has handled the updates the call emitted.
Return(m) ==
    /\ display' = applyUpdates(display, m.out)
    /\ endedFlag' = m.ended
    /\ stepControllers' = m.steps
    /\ nodes' = canonNodes(m.nodes)
    /\ heap' = canonHeap(m.nodes, m.heap)
    /\ UNCHANGED <<predVars, evtVars>>

StatusNodes == {n \in 1..Len(nodes) : nodes[n].kind = "status"}

\* A creating call is explored while fewer than `max` step controllers exist;
\* on an ended controller it throws and creates nothing.
CanCreate(max) == Len(nodes) < max \/ endedFlag

\* The state objects explored for a creating call: on an ended controller the
\* call throws before it looks at the object, so one object stands for all.
Passed(args) == IF endedFlag THEN {CHOOSE a \in args : a.ref = 0} ELSE args

\* The readings Date.now() can give next: the time of the last reading or later.
ClockNext == now..MaxClock
\* The reading when every id of the run is created at a millisecond of its own.
ClockTick == {Len(nodes) + 1}

\* The updates a caller hands to sendUpdate directly.
DirectUpdates ==
    {[type |-> "debugInfoBlock.create", id |-> createId(0, 0), debugInfo |-> "d"]}
        \cup {[type |-> "status.update", id |-> nodes[n].id,
               state |-> [status |-> "done", text |-> "a"]] : n \in StatusNodes}

SendUpdate ==
    /\ \E u \in DirectUpdates : Return(sendUpdate(Machine, u))
    /\ UNCHANGED <<now, endInvoked>>

End ==
    /\ Return(end(Machine))
    /\ endInvoked' = TRUE
    /\ UNCHANGED now

CreateStatus(max, args, clocks, randoms) ==
    /\ CanCreate(max)
    /\ \E arg \in Passed(args), t \in clocks, r \in randoms :
         /\ Return(createStatus(withArg(Machine, arg), labelOf(Machine, arg), createId(t, r)))
         /\ now' = t
    /\ UNCHANGED endInvoked

CreateCitationBlock(max, clocks, randoms) ==
    /\ CanCreate(max)
    /\ \E t \in clocks, r \in randoms :
         /\ Return(createCitationBlock(Machine, "cited", "src", createId(t, r)))
         /\ now' = t
    /\ UNCHANGED endInvoked

CreateDebugInfoBlock(max, clocks, randoms) ==
    /\ CanCreate(max)
    /\ \E t \in clocks, r \in randoms :
         /\ Return(createDebugInfoBlock(Machine, "d", createId(t, r)))
         /\ now' = t
    /\ UNCHANGED endInvoked

SetText ==
    /\ \E n \in StatusNodes, text \in TextVals :
         Return(setText(Machine, n, text))
    /\ UNCHANGED <<now, endInvoked>>

SetState ==
    /\ \E n \in StatusNodes, arg \in StateArgs :
         Return(setState(withArg(Machine, arg), n, labelOf(Machine, arg)))
    /\ UNCHANGED <<now, endInvoked>>

AddSubStatus(max, args, clocks, randoms) ==
    /\ CanCreate(max)
    /\ \E n \in StatusNodes, arg \in Passed(args), t \in clocks, r \in randoms :
         /\ Return(addSubStatus(withArg(Machine, arg), n, labelOf(Machine, arg), createId(t, r)))
         /\ now' = t
    /\ UNCHANGED endInvoked

\* ------------------------------------------------------------------------
\* Calls on the model, deliveries of the channel and steps of the consumers
\* ------------------------------------------------------------------------
FragmentVals == {"x", "y"}
StatsVals == {10, 20}
ModelInfoVals == {"llama"}
ErrorVals == {"E1"}

\* The messages the backend sends on a predict channel.
Messages ==
    [type : {"fragment"}, fragment : FragmentVals]
        \cup [type : {"success"}, stats : StatsVals, modelInfo : ModelInfoVals]

\* The arguments of the callers.
Prompts == {[wellFormed |-> TRUE, value |-> "2+2="],
            [wellFormed |-> FALSE, value |-> "4"]}
Histories == {[wellFormed |-> TRUE, value |-> <<[role |-> "user", content |-> "hi"]>>],
              [wellFormed |-> FALSE, value |-> <<>>]}
DefaultOpts == [wellFormed |-> TRUE, hasConfig |-> FALSE, config |-> <<>>,
                structured |-> "undefined"]
MalformedOpts == [wellFormed |-> FALSE, hasConfig |-> FALSE, config |-> <<>>,
                  structured |-> "undefined"]

\* The configs of the callers: each of the keys is absent or present with one of
\* its values; a stopStrings key may be present and hold undefined.
Field(key, choice) == IF choice.has THEN key :> choice.value ELSE <<>>
StopStringsChoices ==
    {[has |-> FALSE, value |-> Undefined], [has |-> TRUE, value |-> Undefined],
     [has |-> TRUE, value |-> Array(<<>>)], [has |-> TRUE, value |-> Array(<<"END">>)]}
AffixChoices(affix) == {[has |-> FALSE, value |-> ""], [has |-> TRUE, value |-> affix]}
TemperatureChoices == {[has |-> FALSE, value |-> 0], [has |-> TRUE, value |-> 7]}
ConfigVals ==
    {Field("stopStrings", s) @@ Field("inputPrefix", a) @@ Field("inputSuffix", b)
         @@ Field("temperature", t) :
         s \in StopStringsChoices, a \in AffixChoices("<s>"), b \in AffixChoices("</s>"),
         t \in TemperatureChoices}
ConfigOpts ==
    {[wellFormed |-> TRUE, hasConfig |-> TRUE, config |-> c, structured |-> "undefined"] :
         c \in ConfigVals}
        \cup {DefaultOpts,
              [wellFormed |-> TRUE, hasConfig |-> FALSE, config |-> <<>>,
               structured |-> "json"]}

Predictions == 1..Len(ongoingPredictions)

\* Nothing has arrived on a channel that has just been created.
NoArrivals == [fragments |-> <<>>, terminal |-> [type |-> "none"], late |-> {}]

\* The events delivered so far on the channels 1..p; an event delivered after
\* the first success or error counts once per type.
RECURSIVE Delivered(_)
Delivered(p) ==
    IF p = 0 THEN 0
    ELSE Len(arrivals[p].fragments) + Cardinality(arrivals[p].late)
             + (IF arrivals[p].terminal.type = "none" THEN 0 ELSE 1) + Delivered(p - 1)

\* The record of the arrivals once an event of the channel has been delivered:
\* the fragments ahead of the first success or error, that first terminal
\* event, and the types of the events delivered after it.
arrived(a, event) ==
    IF a.terminal.type # "none" THEN [a EXCEPT !.late = @ \cup {event.type}]
    ELSE IF event.type = "fragment" THEN [a EXCEPT !.fragments = Append(@, event.fragment)]
    ELSE [a EXCEPT !.terminal = event]

\* The state after a call of the model or a delivery of the channel.
Settle(w) ==
    /\ channels' = w.channels
    /\ cancelEvents' = w.cancelEvents
    /\ ongoingPredictions' = w.ongoingPredictions
    /\ UNCHANGED <<loaded, ctlVars, evtVars>>

Started(w, method, opts) ==
    IF w.threw THEN Settle(w) /\ UNCHANGED <<consumers, arrivals, requests, calls, thrown>>
    ELSE /\ Settle(w)
         /\ arrivals' = Append(arrivals, NoArrivals)
         /\ requests' = Append(requests, 0)
         /\ calls' = Append(calls, [method |-> method, opts |-> opts])
         /\ UNCHANGED <<consumers, thrown>>

Complete(max, prompts, opts) ==
    /\ Len(ongoingPredictions) < max
    /\ \E prompt \in prompts, o \in opts : Started(complete(World, prompt, o), "complete", o)

Respond(max, histories, opts) ==
    /\ Len(ongoingPredictions) < max
    /\ \E history \in histories, o \in opts : Started(respond(World, history, o), "respond", o)

\* The calls that throw, put on record.
Thrown(w, method) ==
    /\ w.threw
    /\ Settle(w)
    /\ thrown' = thrown \cup {method}
    /\ UNCHANGED <<consumers, arrivals, requests, calls>>

CompleteThrows(prompts, opts) ==
    \E prompt \in prompts, o \in opts : Thrown(complete(World, prompt, o), "complete")

RespondThrows(histories, opts) ==
    \E history \in histories, o \in opts : Thrown(respond(World, history, o), "respond")

ChannelMessage(max) ==
    \E p \in Predictions, message \in Messages :
        /\ arrived(arrivals[p], message) # arrivals[p] => Delivered(Len(arrivals)) < max
        /\ Settle(onMessage(World, p, message))
        /\ arrivals' = [arrivals EXCEPT ![p] = arrived(@, message)]
        /\ UNCHANGED <<consumers, requests, calls, thrown>>

ChannelError(max) ==
    \E p \in Predictions, error \in ErrorVals :
        /\ arrived(arrivals[p], [type |-> "error", error |-> error]) # arrivals[p]
               => Delivered(Len(arrivals)) < max
        /\ Settle(channelError(World, p, error))
        /\ arrivals' = [arrivals EXCEPT ![p] = arrived(@, [type |-> "error", error |-> error])]
        /\ UNCHANGED <<consumers, requests, calls, thrown>>

Cancel(max) ==
    \E p \in Predictions :
        /\ requests[p] < max
        /\ Settle(cancel(World, p))
        /\ requests' = [requests EXCEPT ![p] = @ + 1]
        /\ UNCHANGED <<consumers, arrivals, calls, thrown>>

Iterate(max) ==
    /\ Len(consumers) < max
    /\ \E p \in Predictions :
        consumers' = Append(consumers, iterate(p, ongoingPredictions[p]))
    /\ UNCHANGED <<ctlVars, loaded, channels, cancelEvents, ongoingPredictions, arrivals,
                   requests, calls, thrown, evtVars>>

ConsumerNext ==
    \E c \in 1..Len(consumers) :
        /\ canStep(consumers[c], ongoingPredictions[consumers[c].prediction])
        /\ consumers' = [consumers EXCEPT
                            ![c] = step(@, ongoingPredictions[consumers[c].prediction])]
        /\ UNCHANGED <<ctlVars, loaded, channels, cancelEvents, ongoingPredictions, arrivals,
                   requests, calls, thrown, evtVars>>

\* The calls on one BufferedEvent: eventLog records each call and, after it,
\* the handlers the call has invoked, with the payload they were given.
PayloadVals == {"p1", "p2"}

Invocations(handlers, payload) ==
    [i \in 1..Len(handlers) |-> [op |-> "invoke", handler |-> handlers[i], payload |-> payload]]

HasSubscribed(h) ==
    \E i \in 1..Len(eventLog) : eventLog[i].op = "subscribe" /\ eventLog[i].handler = h

Emissions == Len(SelectSeq(eventLog, LAMBDA entry : entry.op = "emit"))

SubscribeOnce(max) ==
    /\ \E h \in 1..max :
           /\ ~HasSubscribed(h)
           /\ bufferedEvent' = subscribeOnce(bufferedEvent, h)
           /\ eventLog' = Append(eventLog, [op |-> "subscribe", handler |-> h, payload |-> ""])
                              \o Invocations(invokedAtSubscribe(bufferedEvent, h),
                                             bufferedEvent.payload)
    /\ UNCHANGED <<ctlVars, predVars>>

Emit(max) ==
    /\ Emissions < max
    /\ \E payload \in PayloadVals :
           /\ bufferedEvent' = emitWith(bufferedEvent, payload)
           /\ eventLog' = Append(eventLog, [op |-> "emit", handler |-> 0, payload |-> payload])
                              \o Invocations(invokedAtEmit(bufferedEvent), payload)
    /\ UNCHANGED <<ctlVars, predVars>>

Init ==
    /\ endedFlag = FALSE
    /\ stepControllers = <<>>
    /\ nodes = <<>>
    /\ heap = <<>>
    /\ now = 0
    /\ endInvoked = FALSE
    /\ display = <<>>
    /\ loaded = TRUE
    /\ channels = <<>>
    /\ cancelEvents = <<>>
    /\ ongoingPredictions = <<>>
    /\ consumers = <<>>
    /\ arrivals = <<>>
    /\ requests = <<>>
    /\ calls = <<>>
    /\ thrown = {}
    /\ bufferedEvent = BufferedEventCreate
    /\ eventLog = <<>>

\* The controller with every state a caller can pass, each id created at a
\* clock reading of its own.
Next ==
    \/ SendUpdate
    \/ End
    \/ CreateStatus(MaxSteps, StateArgs, ClockTick, {0})
    \/ CreateCitationBlock(MaxSteps, ClockTick, {0})
    \/ CreateDebugInfoBlock(MaxSteps, ClockTick, {0})
    \/ SetText
    \/ SetState
    \/ AddSubStatus(MaxSteps, StateArgs, ClockTick, {0})

Spec == Init /\ [][Next]_vars

\* The status tree and the ids under every clock reading and random draw,
\* the callers passing one state.
LoadingArgs == [ref : {0}, status : {"loading"}, text : {"a"}]

NextIds ==
    \/ End
    \/ CreateStatus(MaxSteps, LoadingArgs, ClockNext, RandomVals)
    \/ CreateCitationBlock(MaxSteps, ClockNext, RandomVals)
    \/ CreateDebugInfoBlock(MaxSteps, ClockNext, RandomVals)
    \/ AddSubStatus(MaxSteps, LoadingArgs, ClockNext, RandomVals)

SpecIds == Init /\ [][NextIds]_vars

\* The status tree in all its shapes, each id created at a clock reading of
\* its own, the callers passing one state.
NextTree ==
    \/ End
    \/ CreateStatus(MaxTreeSteps, LoadingArgs, ClockTick, {0})
    \/ CreateCitationBlock(MaxTreeSteps, ClockTick, {0})
    \/ AddSubStatus(MaxTreeSteps, LoadingArgs, ClockTick, {0})

SpecTree == Init /\ [][NextTree]_vars

\* The status tree in all its shapes, the clock free to stand still between
\* two creations and Math.random() giving the same draw each time.
NextTreeIds ==
    \/ CreateStatus(MaxTreeSteps, LoadingArgs, ClockNext, {0})
    \/ AddSubStatus(MaxTreeSteps, LoadingArgs, ClockNext, {0})

SpecTreeIds == Init /\ [][NextTreeIds]_vars

\* The status tree in all its shapes with the texts of its nodes set and
\* the controller ended, each id created at a clock reading of its own.
NextUpdates ==
    \/ End
    \/ CreateStatus(MaxTreeSteps, LoadingArgs, ClockTick, {0})
    \/ AddSubStatus(MaxTreeSteps, LoadingArgs, ClockTick, {0})
    \/ SetText

SpecUpdates == Init /\ [][NextUpdates]_vars

\* Top-level steps only, their states given at creation, then end().
CreationArgs == [ref : {0}, status : {"waiting", "loading", "done"}, text : TextVals]

NextEnd ==
    \/ End
    \/ CreateStatus(MaxEndSteps, CreationArgs, ClockTick, {0})
    \/ CreateCitationBlock(MaxEndSteps, ClockTick, {0})
    \/ CreateDebugInfoBlock(MaxEndSteps, ClockTick, {0})

SpecEnd == Init /\ [][NextEnd]_vars

\* The predictions: calls of complete and respond, the deliveries of their
\* channels in every order, and the iterations over the results.
NextPred ==
    \/ Complete(MaxPredictions, Prompts, {DefaultOpts, MalformedOpts})
    \/ Respond(MaxPredictions, Histories, {DefaultOpts, MalformedOpts})
    \/ ChannelMessage(MaxDeliveries)
    \/ ChannelError(MaxDeliveries)
    \/ Iterate(MaxConsumers)
    \/ ConsumerNext

SpecPred == Init /\ [][NextPred]_vars

\* The predictions with the cancellations their callers request.
NextCancel ==
    \/ Complete(MaxPredictions, Prompts, {DefaultOpts})
    \/ Respond(MaxPredictions, Histories, {DefaultOpts})
    \/ Cancel(MaxCancels)
    \/ ChannelMessage(MaxDeliveries)
    \/ ChannelError(MaxDeliveries)

SpecCancel == Init /\ [][NextCancel]_vars

\* Several predictions in flight on one model, with the deliveries of their
\* channels and the cancellations in every order.
NextInFlight ==
    \/ Complete(MaxInFlight, Prompts, {DefaultOpts})
    \/ Respond(MaxInFlight, Histories, {DefaultOpts})
    \/ Cancel(MaxInFlightCancels)
    \/ ChannelMessage(MaxInFlightDeliveries)
    \/ ChannelError(MaxInFlightDeliveries)

SpecInFlight == Init /\ [][NextInFlight]_vars

\* The calls of complete and respond, accepted and rejected, between the
\* deliveries of the channels.
NextReject ==
    \/ Complete(MaxPredictions, Prompts, {DefaultOpts})
    \/ Respond(MaxPredictions, Histories, {DefaultOpts})
    \/ CompleteThrows(Prompts, {DefaultOpts, MalformedOpts})
    \/ RespondThrows(Histories, {DefaultOpts, MalformedOpts})
    \/ ChannelMessage(MaxDeliveries)
    \/ ChannelError(MaxDeliveries)

SpecReject == Init /\ [][NextReject]_vars

\* The calls of complete and respond with the configs of the callers.
NextConfig ==
    \/ Complete(MaxConfigCalls, Prompts, ConfigOpts)
    \/ Respond(MaxConfigCalls, Histories, ConfigOpts)

SpecConfig == Init /\ [][NextConfig]_vars

\* One BufferedEvent, its subscriptions and its emissions in every order.
NextEvent == SubscribeOnce(MaxHandlers) \/ Emit(MaxEmissions)

SpecEvent == Init /\ [][NextEvent]_vars

\* One prediction made by complete, the deliveries of its channel and several
\* iterations over it, each started at any point of the deliveries.
NextStream ==
    \/ (ongoingPredictions = <<>> /\ Complete(MaxPredictions, Prompts, {DefaultOpts}))
    \/ ChannelMessage(MaxDeliveries)
    \/ ChannelError(MaxDeliveries)
    \/ Iterate(MaxIterations)
    \/ ConsumerNext

SpecStream == Init /\ [][NextStream]_vars

\* The same with the event loop resuming every iteration that can go on.
FairSpecStream == SpecStream /\ WF_vars(ConsumerNext)

\* ------------------------------------------------------------------------
\* Properties of the controller
\* ------------------------------------------------------------------------
OpenStatus == {"waiting", "loading"}
statusAt(n) == stateOf(nodes, heap, n).status
textAt(n) == stateOf(nodes, heap, n).text
IsOpenStep(n) == nodes[n].kind = "status" /\ statusAt(n) \in OpenStatus
\* The steps end() has to force-terminate, in the order it visits them.
OpenSteps == SelectSeq(stepControllers, IsOpenStep)
OpenStepSet == {OpenSteps[i] : i \in 1..Len(OpenSteps)}
CanceledState(n) == [status |-> "canceled", text |-> textAt(n)]
TopLevel(n) == \E i \in 1..Len(stepControllers) : stepControllers[i] = n

\* C1: once end() has been invoked, every sendUpdate call throws the "ended"
\* error and hands nothing to the co-preprocessor, whatever the update and
\* whatever was done before.
SendUpdateAfterEndThrows ==
    endInvoked =>
        \A u \in DirectUpdates :
            /\ sendUpdate(Machine, u).threw
            /\ sendUpdate(Machine, u).out = <<>>

\* An ended controller with steps, on which an update for one of them is
\* sent and rejected.
SendUpdateAfterEndWitness ==
    /\ endInvoked
    /\ StatusNodes # {}
    /\ \E u \in DirectUpdates : u.type = "status.update" /\ sendUpdate(Machine, u).threw

\* C2: on a controller that has not ended, end() emits one status.update to
\* canceled, carrying the step's last text, for each waiting or loading step
\* made by createStatus, in creation order, and none of them is rejected;
\* every other step (done steps, citation and debug blocks) is left as it
\* was and gets no update.
EndCancelsOpenSteps ==
    ~endedFlag =>
        LET m == end(Machine)
        IN  /\ ~m.threw
            /\ m.ended
            /\ Len(m.out) = Len(OpenSteps)
            /\ \A i \in 1..Len(OpenSteps) :
                   m.out[i] = [type |-> "status.update", id |-> nodes[OpenSteps[i]].id,
                               state |-> CanceledState(OpenSteps[i])]
            /\ Len(m.nodes) = Len(nodes)
            /\ m.steps = stepControllers
            /\ \A n \in 1..Len(nodes) :
                   IF n \in OpenStepSet
                   THEN stateOf(m.nodes, m.heap, n) = CanceledState(n)
                   ELSE /\ m.nodes[n] = nodes[n]
                        /\ nodes[n].kind = "status" =>
                               stateOf(m.nodes, m.heap, n) = stateOf(nodes, heap, n)

\* A controller holding a waiting, a loading and a done step and a citation
\* or debug block, on which end() cancels exactly the first two.
EndCancelsOpenStepsWitness ==
    /\ ~endedFlag
    /\ \E a, b, c, d \in 1..Len(nodes) :
          /\ TopLevel(a) /\ nodes[a].kind = "status" /\ statusAt(a) = "waiting"
          /\ TopLevel(b) /\ nodes[b].kind = "status" /\ statusAt(b) = "loading"
          /\ TopLevel(c) /\ nodes[c].kind = "status" /\ statusAt(c) = "done"
          /\ nodes[d].kind \in {"citation", "debug"}
          /\ textAt(a) # textAt(b)
    /\ Len(end(Machine).out) = 2

\* C3: after end() returns, no status node of the controller, made by
\* createStatus or by addSubStatus at any depth, is waiting or loading.
NoOpenNodeAfterEnd ==
    [][(End /\ ~endedFlag) =>
          \A n \in 1..Len(nodes') :
              nodes'[n].kind = "status" => heap'[nodes'[n].lastState].status \notin OpenStatus]_vars

\* C4: a further end() on an ended controller does not throw, emits nothing,
\* changes no step and leaves the controller ended, whatever was called
\* before (setState and setText after the first end() included).
EndIsIdempotent ==
    endInvoked =>
        LET m == end(Machine)
        IN  /\ ~m.threw
            /\ m.out = <<>>
            /\ m.ended
            /\ \A n \in StatusNodes : stateOf(m.nodes, m.heap, n) = stateOf(nodes, heap, n)

\* C5 as stated: no call moves a node out of done, error or canceled, or
\* back from loading to waiting.
StatusStateMachine ==
    [][\A n \in StatusNodes :
          /\ statusAt(n) \in {"done", "error", "canceled"} => statusAt(n)' = statusAt(n)
          /\ statusAt(n) = "loading" => statusAt(n)' # "waiting"]_vars

\* Whether machine m shows node n with the status it has now.
KeepsStatus(m, n) == stateOf(m.nodes, m.heap, n).status = statusAt(n)

\* C5, amended: a node's status changes only by a setState call, which sets
\* whatever the caller passes, or by end(), which moves a node only from
\* waiting or loading and only to canceled; setText, sendUpdate and the
\* creating calls change no status.
StatusChangesOnlyBySetStateOrForcedCancel ==
    /\ \A n \in StatusNodes :
           \/ KeepsStatus(end(Machine), n)
           \/ /\ statusAt(n) \in OpenStatus
              /\ stateOf(end(Machine).nodes, end(Machine).heap, n).status = "canceled"
    /\ \A n, k \in StatusNodes, text \in TextVals : KeepsStatus(setText(Machine, n, text), k)
    /\ \A k \in StatusNodes, arg \in StateArgs :
           /\ KeepsStatus(createStatus(withArg(Machine, arg), labelOf(Machine, arg),
                                       createId(now, 0)), k)
           /\ KeepsStatus(createCitationBlock(Machine, "cited", "src", createId(now, 0)), k)
           /\ KeepsStatus(createDebugInfoBlock(Machine, "d", createId(now, 0)), k)
           /\ \A n \in StatusNodes :
                  KeepsStatus(addSubStatus(withArg(Machine, arg), n, labelOf(Machine, arg),
                                           createId(now, 0)), k)
    /\ \A k \in StatusNodes, u \in DirectUpdates : KeepsStatus(sendUpdate(Machine, u), k)

\* A controller with an open step and a done step made by createStatus, on
\* which end() cancels the former and keeps the latter.
ForcedCancelWitness ==
    /\ ~endedFlag
    /\ \E a, c \in StatusNodes :
          /\ TopLevel(a) /\ statusAt(a) = "loading"
          /\ TopLevel(c) /\ statusAt(c) = "done"
          /\ stateOf(end(Machine).nodes, end(Machine).heap, a).status = "canceled"
          /\ stateOf(end(Machine).nodes, end(Machine).heap, c).status = "done"

\* The tree of status nodes as the creating calls built it.
Children(n) == {k \in 1..Len(nodes) : nodes[k].parent = n}
LastChild(n) == CHOOSE k \in Children(n) : \A j \in Children(n) : j <= k
RECURSIVE DeepestLastDescendant(_)
DeepestLastDescendant(n) ==
    IF Children(n) = {} THEN n ELSE DeepestLastDescendant(LastChild(n))

\* C6: addSubStatus on a node emits one status.create placed after the
\* deepest last-added descendant of that node (the node itself when it has
\* no child), found by following last children to the end, at the node's
\* indentation plus one.
AddSubStatusLocation ==
    ~endedFlag =>
        \A n \in StatusNodes, arg \in LoadingArgs :
            LET m == addSubStatus(withArg(Machine, arg), n, labelOf(Machine, arg),
                                  createId(Len(nodes) + 1, 0))
            IN  /\ ~m.threw
                /\ Len(m.out) = 1
                /\ m.out[1].type = "status.create"
                /\ m.out[1].location = [type |-> "afterId",
                                        id |-> nodes[DeepestLastDescendant(n)].id]
                /\ m.out[1].indentation = nodes[n].indentation + 1
                /\ m.nodes[Len(m.nodes)].indentation = nodes[n].indentation + 1

\* A parent whose last child has a child of its own: the next sub-status of
\* the parent goes after that grandchild, two steps down the chain.
AddSubStatusLocationWitness ==
    /\ ~endedFlag
    /\ \E p, c, g \in StatusNodes :
          /\ nodes[c].parent = p /\ nodes[g].parent = c
          /\ LastChild(p) = c
          /\ DeepestLastDescendant(p) = g
          /\ \E first \in Children(p) : first < c

\* String comparison of two ids: by clock reading first (equal digit counts),
\* then by the random draw.
idLess(a, b) == a[1] < b[1] \/ (a[1] = b[1] /\ a[2] < b[2])

\* C7: the ids made within one controller are pairwise distinct and ordered
\* by creation: an id made later compares greater than every earlier one.
IdsUniqueAndOrdered ==
    \A i, j \in 1..Len(nodes) :
        i < j => nodes[i].id # nodes[j].id /\ idLess(nodes[i].id, nodes[j].id)

\* ------------------------------------------------------------------------
\* The predictions
\* ------------------------------------------------------------------------
IsPrefix(s, t) == Len(s) <= Len(t) /\ SubSeq(t, 1, Len(s)) = s

ConsumersOf(p) == {c \in 1..Len(consumers) : consumers[c].prediction = p}

\* C8: when fragment messages and then a success message have arrived on the
\* channel of a prediction made by complete or respond, the prediction has
\* succeeded, its awaited form resolves to the concatenation of those
\* fragments in arrival order with the stats and the model descriptor of that
\* success message, and every iteration over it yields those fragments in
\* that order, never raises, can always go on, and completes only after the
\* last of them.
FragmentsThenSuccessResolve ==
    \A p \in Predictions :
        arrivals[p].terminal.type = "success" =>
            /\ ongoingPredictions[p].status = "succeeded"
            /\ ongoingPredictions[p].fragments = arrivals[p].fragments
            /\ awaited(ongoingPredictions[p]) =
                   [settled |-> "resolved", content |-> Concat(arrivals[p].fragments),
                    stats |-> arrivals[p].terminal.stats,
                    modelInfo |-> arrivals[p].terminal.modelInfo]
            /\ \A c \in ConsumersOf(p) :
                   /\ consumers[c].outcome # "raised"
                   /\ IsPrefix(consumers[c].yielded, arrivals[p].fragments)
                   /\ consumers[c].outcome = "completed"
                          => consumers[c].yielded = arrivals[p].fragments
                   /\ consumers[c].outcome = "iterating"
                          => canStep(consumers[c], ongoingPredictions[p])

\* Two different fragments and a success have arrived, and an iteration that
\* started while the prediction was pending has yielded both and completed.
FragmentsThenSuccessWitness ==
    \E p \in Predictions, c \in 1..Len(consumers) :
        /\ arrivals[p].terminal.type = "success"
        /\ Len(arrivals[p].fragments) = 2
        /\ arrivals[p].fragments[1] # arrivals[p].fragments[2]
        /\ consumers[c].prediction = p
        /\ consumers[c].concurrent
        /\ consumers[c].outcome = "completed"

\* C9: once a prediction has succeeded or failed, no later event of the
\* channel (a second success, an error after a success, a success after an
\* error, a fragment) changes its status, fragments, content, stats, model
\* descriptor or error.
OneTerminalTransition ==
    [][\A p \in Predictions :
           ongoingPredictions[p].status # "pending"
               => ongoingPredictions'[p] = ongoingPredictions[p]]_vars

\* A prediction has reached its terminal state and the channel has delivered
\* a success or an error after that.
OneTerminalTransitionWitness ==
    \E p \in Predictions :
        /\ ongoingPredictions[p].status # "pending"
        /\ arrivals[p].late \cap {"success", "error"} # {}

\* C10: when the channel reports an error after N fragments, the prediction
\* has failed, its awaited form rejects with that error, it holds the N
\* fragments and no fragment delivered later, and every iteration over it
\* yields those fragments in order, never completes normally, can always go
\* on, and raises that error only after the N-th fragment.
ErrorAfterFragmentsRejects ==
    \A p \in Predictions :
        arrivals[p].terminal.type = "error" =>
            /\ ongoingPredictions[p].status = "failed"
            /\ ongoingPredictions[p].fragments = arrivals[p].fragments
            /\ awaited(ongoingPredictions[p]) =
                   [settled |-> "rejected", error |-> arrivals[p].terminal.error]
            /\ \A c \in ConsumersOf(p) :
                   /\ consumers[c].outcome # "completed"
                   /\ IsPrefix(consumers[c].yielded, arrivals[p].fragments)
                   /\ consumers[c].outcome = "raised"
                          => /\ consumers[c].yielded = arrivals[p].fragments
                             /\ consumers[c].error = arrivals[p].terminal.error
                   /\ consumers[c].outcome = "iterating"
                          => canStep(consumers[c], ongoingPredictions[p])

\* An error has arrived after one fragment, another fragment after the error,
\* and an iteration that started while the prediction was pending has raised.
ErrorAfterFragmentsWitness ==
    \E p \in Predictions, c \in 1..Len(consumers) :
        /\ arrivals[p].terminal.type = "error"
        /\ Len(arrivals[p].fragments) = 1
        /\ "fragment" \in arrivals[p].late
        /\ consumers[c].prediction = p
        /\ consumers[c].concurrent
        /\ consumers[c].outcome = "raised"

ReplaySafe ==
    \A p \in Predictions :
        /\ ongoingPredictions[p].fragments = arrivals[p].fragments
        /\ \A c \in ConsumersOf(p) :
               /\ IsPrefix(consumers[c].yielded, arrivals[p].fragments)
               /\ consumers[c].outcome # "iterating"
                      => /\ arrivals[p].terminal.type # "none"
                         /\ consumers[c].yielded = arrivals[p].fragments

CaughtUp(c) ==
    c \in 1..Len(consumers) =>
        /\ consumers[c].yielded = ongoingPredictions[consumers[c].prediction].fragments
        /\ ongoingPredictions[consumers[c].prediction].status # "pending"
               => consumers[c].outcome # "iterating"

\* C11: with several iterations over one prediction, each started at any
\* point of the deliveries, the buffer holds the fragments in the order the
\* channel delivered them, every iteration has yielded a prefix of that
\* sequence (its first fragment first, none skipped, none reordered), and an
\* iteration has observed the terminal transition (completed or raised) only
\* after yielding every fragment delivered ahead of it. Every
\* iteration again and again stands at the end of the buffer, having yielded
\* all of it, and past the terminal transition once there is one.
ConsumersReplayInOrder ==
    /\ []ReplaySafe
    /\ \A c \in 1..MaxIterations : []<>CaughtUp(c)

\* Two iterations over one prediction, one started while it was pending and
\* one started after its terminal transition, have both yielded the two
\* different fragments delivered and observed the terminal transition.
ConsumersReplayWitness ==
    \E p \in Predictions, c1, c2 \in 1..Len(consumers) :
        /\ Len(arrivals[p].fragments) = 2
        /\ arrivals[p].fragments[1] # arrivals[p].fragments[2]
        /\ consumers[c1].prediction = p /\ consumers[c2].prediction = p
        /\ consumers[c1].concurrent /\ ~consumers[c2].concurrent
        /\ consumers[c1].outcome # "iterating" /\ consumers[c2].outcome # "iterating"

CancelsSent(channel) ==
    Len(SelectSeq(channel.sent, LAMBDA message : message.type = "cancel"))

\* A prediction started with a cancel event that has fired already.
PredictedAfterEmission(w) ==
    LET p == Len(w.ongoingPredictions) + 1
        w1 == withPrediction(w)
    IN  predict([w1 EXCEPT !.cancelEvents[p] = emit(@)], p, specifier, <<>>, <<>>,
                "undefined")

\* C12: on the channel of a prediction there is no cancel message while
\* cancel() has not been called and exactly one once it has been called,
\* however many times; one more cancel() adds no second one; and predict
\* given a cancel event that fired before it subscribed sends exactly one,
\* to which a later cancel() adds none.
CancelSentExactlyOnce ==
    /\ \A p \in Predictions :
           /\ CancelsSent(channels[p]) = (IF requests[p] = 0 THEN 0 ELSE 1)
           /\ CancelsSent(cancel(World, p).channels[p]) = 1
           /\ CancelsSent(cancel(cancel(World, p), p).channels[p]) = 1
    /\ LET p == Len(ongoingPredictions) + 1
       IN  /\ CancelsSent(PredictedAfterEmission(World).channels[p]) = 1
           /\ CancelsSent(cancel(PredictedAfterEmission(World), p).channels[p]) = 1

\* cancel() has been called twice on a prediction whose channel has also
\* delivered events, and one cancel message has been sent.
CancelSentOnceWitness ==
    \E p \in Predictions :
        /\ requests[p] = 2
        /\ Len(arrivals[p].fragments) > 0
        /\ CancelsSent(channels[p]) = 1

\* ------------------------------------------------------------------------
\* BufferedEvent on its own
\* ------------------------------------------------------------------------
LogIndexes(op, h) ==
    {i \in 1..Len(eventLog) : eventLog[i].op = op /\ eventLog[i].handler = h}

FirstEmit ==
    IF Emissions = 0 THEN 0
    ELSE CHOOSE i \in LogIndexes("emit", 0) : \A j \in LogIndexes("emit", 0) : i <= j

\* C13: a handler that has subscribed with subscribeOnce has been invoked
\* exactly once if the event has been emitted and not at all otherwise; the
\* invocation carries the payload of the first emission; for a handler that
\* subscribed before that emission it comes with the emission (only other
\* invocations lie between), for one that subscribed after it, at once after
\* the subscription; a second emission invokes no handler.
BufferedEventOncePerSubscriber ==
    /\ \A h \in 1..MaxHandlers :
           /\ Cardinality(LogIndexes("invoke", h))
                  = (IF HasSubscribed(h) /\ Emissions > 0 THEN 1 ELSE 0)
           /\ \A i \in LogIndexes("invoke", h), s \in LogIndexes("subscribe", h) :
                  /\ eventLog[i].payload = eventLog[FirstEmit].payload
                  /\ IF s < FirstEmit
                     THEN /\ FirstEmit < i
                          /\ \A j \in (FirstEmit + 1)..i : eventLog[j].op = "invoke"
                     ELSE i = s + 1
    /\ \A i \in LogIndexes("emit", 0) :
           i # FirstEmit /\ i < Len(eventLog) => eventLog[i + 1].op # "invoke"

\* One handler subscribed before the first emission and one after it, the
\* event has been emitted twice with different payloads, and both handlers
\* have been invoked.
BufferedEventOnceWitness ==
    \E h1, h2 \in 1..MaxHandlers, e1, e2 \in LogIndexes("emit", 0) :
        /\ e1 = FirstEmit /\ e1 < e2
        /\ eventLog[e1].payload # eventLog[e2].payload
        /\ \E s1 \in LogIndexes("subscribe", h1) : s1 < e1
        /\ \E s2 \in LogIndexes("subscribe", h2) : s2 > e2
        /\ LogIndexes("invoke", h1) # {}
        /\ LogIndexes("invoke", h2) # {}

\* ------------------------------------------------------------------------
\* The config of the request
\* ------------------------------------------------------------------------
SentConfig(p) == channels[p].creationParameter.config
CallerConfig(p) == configOf(calls[p].opts)
ClearedKeys == {"inputPrefix", "inputSuffix"}

\* C14: the request of a complete call carries inputPrefix = "" and
\* inputSuffix = "" whatever the caller's config holds for them, stopStrings
\* = [] when the caller's config has no stopStrings key and the value under
\* that key when it has one, and for every other key exactly the caller's
\* keys and values.
CompleteConfigPolicy ==
    \A p \in Predictions :
        calls[p].method = "complete" =>
            /\ SentConfig(p).inputPrefix = ""
            /\ SentConfig(p).inputSuffix = ""
            /\ SentConfig(p).stopStrings =
                   (IF "stopStrings" \in DOMAIN CallerConfig(p)
                    THEN CallerConfig(p).stopStrings ELSE Array(<<>>))
            /\ DOMAIN SentConfig(p)
                   = DOMAIN CallerConfig(p) \cup ClearedKeys \cup {"stopStrings"}
            /\ \A key \in DOMAIN CallerConfig(p) \ (ClearedKeys \cup {"stopStrings"}) :
                   SentConfig(p)[key] = CallerConfig(p)[key]

\* complete has been called with a config that sets inputPrefix, inputSuffix,
\* stopStrings and temperature, and also with one that has no stopStrings.
CompleteConfigWitness ==
    \E p, q \in Predictions :
        /\ calls[p].method = "complete" /\ calls[q].method = "complete"
        /\ DOMAIN CallerConfig(p)
               = {"inputPrefix", "inputSuffix", "stopStrings", "temperature"}
        /\ CallerConfig(p).stopStrings = Array(<<"END">>)
        /\ "stopStrings" \notin DOMAIN CallerConfig(q)
        /\ "inputPrefix" \in DOMAIN CallerConfig(q)

\* ------------------------------------------------------------------------
\* Rejected calls
\* ------------------------------------------------------------------------
Rejects(w, after) == after = [w EXCEPT !.threw = TRUE]

Unloaded == [World EXCEPT !.loaded = FALSE]

\* C15: a complete or respond call whose arguments fail validation, or that
\* is made on an unloaded handle, throws and changes nothing: it creates no
\* channel, no OngoingPrediction and no cancel event and sends no message.
\* The channels, predictions and cancel events that exist are those of the
\* accepted calls, one each.
RejectedCallsChangeNothing ==
    /\ Len(channels) = Len(calls)
    /\ Len(ongoingPredictions) = Len(calls)
    /\ Len(cancelEvents) = Len(calls)
    /\ \A p \in Predictions : channels[p].sent = <<>>
    /\ \A o \in {DefaultOpts, MalformedOpts} :
           /\ \A prompt \in Prompts :
                  /\ ~validates(prompt, o) => Rejects(World, complete(World, prompt, o))
                  /\ Rejects(Unloaded, complete(Unloaded, prompt, o))
           /\ \A history \in Histories :
                  /\ ~validates(history, o) => Rejects(World, respond(World, history, o))
                  /\ Rejects(Unloaded, respond(Unloaded, history, o))

\* Calls of complete and of respond have been rejected on a model that has a
\* prediction in flight with a fragment delivered.
RejectedCallsWitness ==
    /\ thrown = {"complete", "respond"}
    /\ \E p \in Predictions : Len(arrivals[p].fragments) > 0

\* ------------------------------------------------------------------------
\* Predictions in flight together
\* ------------------------------------------------------------------------
\* What belongs to prediction q in w.
Owned(w, q) == <<w.channels[q], w.cancelEvents[q], w.ongoingPredictions[q]>>

LeavesOthers(w, p) ==
    /\ Len(w.channels) = Len(channels)
    /\ \A q \in Predictions \ {p} : Owned(w, q) = Owned(World, q)

\* C16: there is one channel per accepted call, opened with that call's
\* request; a fragment, a success or an error on the channel of one
\* prediction, and a cancel() on it, leave the channel, the cancel event and
\* the OngoingPrediction of every other prediction as they were; each
\* prediction holds the fragments of its own channel only, and a channel
\* carries a cancel message only if its own prediction was cancelled.
ChannelsAreExclusive ==
    /\ Len(channels) = Len(calls)
    /\ \A p \in Predictions :
           /\ channels[p].creationParameter.history
                  = (IF calls[p].method = "complete"
                     THEN <<[role |-> "user", content |-> "2+2="]>>
                     ELSE <<[role |-> "user", content |-> "hi"]>>)
           /\ arrivals[p].terminal.type = "none"
                  => ongoingPredictions[p].status = "pending"
           /\ ongoingPredictions[p].fragments = arrivals[p].fragments
           /\ CancelsSent(channels[p]) = (IF requests[p] = 0 THEN 0 ELSE 1)
           /\ \A message \in Messages : LeavesOthers(onMessage(World, p, message), p)
           /\ \A error \in ErrorVals : LeavesOthers(channelError(World, p, error), p)
           /\ LeavesOthers(cancel(World, p), p)

\* Two predictions are in flight: one has received a fragment and has been
\* cancelled; the other one is pending with nothing received and nothing sent.
ChannelsAreExclusiveWitness ==
    \E p, q \in Predictions :
        /\ p # q
        /\ Len(arrivals[p].fragments) = 1
        /\ requests[p] = 1
        /\ CancelsSent(channels[p]) = 1
        /\ ongoingPredictions[q] = OngoingPredictionCreate
        /\ channels[q].sent = <<>>

\* ------------------------------------------------------------------------
\* Deliveries after the terminal transition
\* ------------------------------------------------------------------------
\* C17: once finished or failed has been called on a prediction, no message
\* the channel delivers makes the handler of predict call push on it, and the
\* prediction holds the fragments pushed before, in order.
NoPushAfterTerminal ==
    \A p \in Predictions :
        /\ ongoingPredictions[p].fragments = arrivals[p].fragments
        /\ arrivals[p].terminal.type # "none"
               => \A message \in Messages : onMessage(World, p, message).pushed = <<>>

\* ------------------------------------------------------------------------
\* Cancellation and the terminal state
\* ------------------------------------------------------------------------
\* C18: cancel() changes no OngoingPrediction: on the prediction's channel it
\* at most appends the cancel message, and nothing else changes but the
\* cancel event. A prediction, cancelled or not, is pending as long as its
\* channel has delivered no success and no error, holds the fragments
\* delivered, and takes the terminal state of the first success or error.
CancelDoesNotTerminate ==
    \A p \in Predictions :
        /\ cancel(World, p).ongoingPredictions = ongoingPredictions
        /\ cancel(World, p).channels[p].onError = channels[p].onError
        /\ cancel(World, p).channels[p].sent
               \in {channels[p].sent, Append(channels[p].sent, [type |-> "cancel"])}
        /\ ongoingPredictions[p].fragments = arrivals[p].fragments
        /\ ongoingPredictions[p].status =
               (CASE arrivals[p].terminal.type = "success" -> "succeeded"
                  [] arrivals[p].terminal.type = "error" -> "failed"
                  [] OTHER -> "pending")

\* A prediction has been cancelled, the cancel message is on its channel, a
\* fragment has been delivered, and the prediction is pending.
CancelDoesNotTerminateWitness ==
    \E p \in Predictions :
        /\ requests[p] > 0
        /\ CancelsSent(channels[p]) = 1
        /\ Len(arrivals[p].fragments) > 0
        /\ ongoingPredictions[p].status = "pending"

\* ------------------------------------------------------------------------
\* Creating calls on an ended controller
\* ------------------------------------------------------------------------
Refused(m, after) == after = [m EXCEPT !.threw = TRUE]

\* C19: on an ended controller createStatus, createCitationBlock,
\* createDebugInfoBlock, debug, and addSubStatus on every status node throw,
\* hand no update to the co-preprocessor, add no step controller and no node,
\* and leave every node, the parent's lastSubStatus included, as it was.
CreationRefusedAfterEnd ==
    endedFlag =>
        \A arg \in StateArgs, t \in ClockVals, r \in RandomVals :
            /\ Refused(withArg(Machine, arg),
                       createStatus(withArg(Machine, arg), labelOf(Machine, arg),
                                    createId(t, r)))
            /\ Refused(Machine, createCitationBlock(Machine, "cited", "src", createId(t, r)))
            /\ Refused(Machine, createDebugInfoBlock(Machine, "d", createId(t, r)))
            /\ Refused(Machine, debug(Machine, <<"d", "e">>, createId(t, r)))
            /\ \A n \in StatusNodes :
                   Refused(withArg(Machine, arg),
                           addSubStatus(withArg(Machine, arg), n, labelOf(Machine, arg),
                                        createId(t, r)))

\* The controller has ended with a status node that has a sub-status, so that
\* its lastSubStatus is another node.
CreationRefusedWitness ==
    /\ endedFlag
    /\ \E n \in StatusNodes : nodes[n].lastSubStatus # n

\* ------------------------------------------------------------------------
\* Rejected setState and setText
\* ------------------------------------------------------------------------
\* C20: on an ended controller a setText or setState call on a status node,
\* which throws and emits nothing, leaves the status and the text recorded
\* for the node as they were before the call.
RejectedSetKeepsState ==
    endedFlag =>
        \A n \in StatusNodes :
            /\ \A text \in TextVals :
                   /\ setText(Machine, n, text).threw
                   /\ stateOf(setText(Machine, n, text).nodes,
                              setText(Machine, n, text).heap, n) = stateOf(nodes, heap, n)
            /\ \A arg \in StateArgs :
                   /\ setState(withArg(Machine, arg), n, labelOf(Machine, arg)).threw
                   /\ stateOf(setState(withArg(Machine, arg), n, labelOf(Machine, arg)).nodes,
                              setState(withArg(Machine, arg), n, labelOf(Machine, arg)).heap,
                              n) = stateOf(nodes, heap, n)

\* ------------------------------------------------------------------------
\* The list of status blocks on the side of the host
\* ------------------------------------------------------------------------
\* The status nodes below the siblings S in pre-order, siblings and children
\* in creation order.
RECURSIVE PreOrder(_)
PreOrder(S) ==
    IF S = {} THEN <<>>
    ELSE LET first == CHOOSE k \in S : \A j \in S : k <= j
         IN  <<first>> \o PreOrder(Children(first)) \o PreOrder(S \ {first})

Roots == {n \in StatusNodes : nodes[n].parent = 0}

\* C21: the list obtained by applying the emitted status.create updates in
\* order (without location: at the end; with location: right after the
\* afterId block) is the pre-order traversal of the status tree with roots
\* and children in creation order, so that every sub-status lies after its
\* parent and before the parent's next sibling.
DisplayIsPreOrder ==
    display = [i \in 1..Len(PreOrder(Roots)) |-> nodes[PreOrder(Roots)[i]].id]

\* The ids whose status.create the co-preprocessor has been handed.
CreatesDelivered == {display[i] : i \in 1..Len(display)}

\* The updates come in order after the creates of `known`: a status.update
\* names an id created before it, and so does the afterId of a status.create.
RECURSIVE InOrder(_, _)
InOrder(known, updates) ==
    IF updates = <<>> THEN TRUE
    ELSE LET update == Head(updates)
         IN  /\ update.type = "status.update" => update.id \in known
             /\ (update.type = "status.create" /\ "location" \in DOMAIN update)
                    => update.location.id \in known
             /\ InOrder(IF update.type = "status.create" THEN known \cup {update.id} ELSE known,
                        Tail(updates))

\* The updates each call on the controller or on one of its status nodes
\* would send now.
Emitted ==
    {end(Machine).out}
        \cup {setText(Machine, n, text).out : n \in StatusNodes, text \in TextVals}
        \cup {setState(withArg(Machine, arg), n, labelOf(Machine, arg)).out :
                  n \in StatusNodes, arg \in LoadingArgs}
        \cup {createStatus(withArg(Machine, arg), labelOf(Machine, arg), createId(t, 0)).out :
                  arg \in LoadingArgs, t \in ClockNext}
        \cup {addSubStatus(withArg(Machine, arg), n, labelOf(Machine, arg), createId(t, 0)).out :
                  n \in StatusNodes, arg \in LoadingArgs, t \in ClockNext}

OthersKeepState(m, n) ==
    \A k \in StatusNodes \ {n} : stateOf(m.nodes, m.heap, k) = stateOf(nodes, heap, k)

\* C23: setText and setState on one status node change the recorded status
\* and text of that node only: every other node shows the state it showed
\* before the call, also a node that was created or last set with the same
\* state object, and setText keeps the status value of its node.
SetTouchesOneNode ==
    \A n \in StatusNodes :
        /\ \A text \in TextVals :
               /\ OthersKeepState(setText(Machine, n, text), n)
               /\ stateOf(setText(Machine, n, text).nodes, setText(Machine, n, text).heap, n).status
                      = statusAt(n)
        /\ \A arg \in StateArgs :
               OthersKeepState(setState(withArg(Machine, arg), n, labelOf(Machine, arg)), n)

====
